---- MODULE Spec2Model ----
(***************************************************************************)
(* Model of the PROXY_PREFIX_PATH normalisation of easy-mcp's frontend:    *)
(*   frontend/src/config/router.js  (normalizeRouterBase,                  *)
(*                                   normalizeRequestPrefix, the exported  *)
(*                                   constants computed at module load)    *)
(*   the Vite configuration         (normalizeBase, base path)             *)
(*                                                                         *)
(* A JavaScript value is a record [type, chars]: a string carries its      *)
(* characters as a sequence of one-character strings; null and undefined   *)
(* carry none.  A thrown TypeError is the value of type "TypeError".       *)
(***************************************************************************)
EXTENDS Integers, Sequences, FiniteSets

VARIABLES env, pc, basePath, ROUTER_BASE, API_REQUEST_PREFIX, viteBasePath, call

vars == <<env, pc, basePath, ROUTER_BASE, API_REQUEST_PREFIX, viteBasePath, call>>

----------------------------------------------------------------------------
(* Bounds *)

MaxLen == 4

MaxEnvLen == 2

----------------------------------------------------------------------------
(* JavaScript values *)

Alphabet == {"/", " ", "a"}

Whitespace == {" "}

JsString(s) == [type |-> "string", chars |-> s]

JsUndefined == [type |-> "undefined", chars |-> <<>>]

JsNull == [type |-> "null", chars |-> <<>>]

TypeError == [type |-> "TypeError", chars |-> <<>>]

StringsUpTo(n) == UNION {[1..k -> Alphabet] : k \in 0..n}

\* arguments a caller can pass to the exported functions
JsArgs == {JsString(s) : s \in StringsUpTo(MaxLen)} \cup {JsNull, JsUndefined}

\* values of an environment variable: a string, or undefined when unset
EnvValues(n) == {JsString(s) : s \in StringsUpTo(n)} \cup {JsUndefined}

\* !v
Falsy(v) == v.type \in {"undefined", "null"} \/ (v.type = "string" /\ v.chars = <<>>)

\* v || ''
OrEmpty(v) == IF Falsy(v) THEN JsString(<<>>) ELSE v

----------------------------------------------------------------------------
(* String.prototype.trim *)

RECURSIVE TrimStart(_)
TrimStart(s) == IF s # <<>> /\ Head(s) \in Whitespace THEN TrimStart(Tail(s)) ELSE s

RECURSIVE TrimEnd(_)
TrimEnd(s) ==
  IF s # <<>> /\ s[Len(s)] \in Whitespace THEN TrimEnd(SubSeq(s, 1, Len(s) - 1)) ELSE s

Trim(s) == TrimEnd(TrimStart(s))

(* .replace(/^\/+|\/+$/g, ''): the scan goes left to right; at position i   *)
(* the first alternative matches a run of slashes only at the start of the  *)
(* string, the second only a run of slashes that reaches the end.           *)

RECURSIVE SlashRun(_, _)
SlashRun(s, i) == IF i <= Len(s) /\ s[i] = "/" THEN 1 + SlashRun(s, i + 1) ELSE 0

RECURSIVE ReplaceFrom(_, _)
ReplaceFrom(s, i) ==
  IF i > Len(s) THEN <<>>
  ELSE LET n == SlashRun(s, i) IN
       IF i = 1 /\ n > 0 THEN ReplaceFrom(s, i + n)
       ELSE IF n > 0 /\ i + n - 1 = Len(s) THEN <<>>
       ELSE <<s[i]>> \o ReplaceFrom(s, i + 1)

RECURSIVE DropAllSlashes(_)
DropAllSlashes(s) ==
  IF s = <<>> THEN <<>>
  ELSE IF Head(s) = "/" THEN DropAllSlashes(Tail(s))
  ELSE <<Head(s)>> \o DropAllSlashes(Tail(s))

StripLeadingOnly(s) == IF SlashRun(s, 1) > 0 THEN SubSeq(s, SlashRun(s, 1) + 1, Len(s)) ELSE s

StripSlashes(s) == ReplaceFrom(s, 1)

\* String.prototype.slice(b, e) with JavaScript's treatment of negative indices
Clamp(k, n) == IF k < 0 THEN (IF n + k < 0 THEN 0 ELSE n + k) ELSE (IF k > n THEN n ELSE k)

slice(s, b, e) == SubSeq(s, Clamp(b, Len(s)) + 1, Clamp(e, Len(s)))

----------------------------------------------------------------------------
(* router.js *)

normalizeRouterBase_noEmptyCheck(base) ==
  IF Falsy(base) THEN JsString(<<"/">>)
  ELSE IF base.type # "string" THEN TypeError
  ELSE IF Trim(base.chars) = <<>> \/ base.chars = <<"/">> THEN JsString(<<"/">>)
  ELSE LET normalized == StripSlashes(Trim(base.chars)) IN
       JsString(<<"/">> \o normalized \o <<"/">>)

normalizeRouterBase_allSlashes(base) ==
  IF Falsy(base) THEN JsString(<<"/">>)
  ELSE IF base.type # "string" THEN TypeError
  ELSE IF Trim(base.chars) = <<>> \/ base.chars = <<"/">> THEN JsString(<<"/">>)
  ELSE LET normalized == DropAllSlashes(Trim(base.chars)) IN
       IF normalized = <<>> THEN JsString(<<"/">>)
       ELSE JsString(<<"/">> \o normalized \o <<"/">>)

normalizeRouterBase_trimFirst(base) ==
  IF base.type # "string" THEN TypeError
  ELSE IF Trim(base.chars) = <<>> \/ Falsy(base) \/ base.chars = <<"/">> THEN JsString(<<"/">>)
  ELSE LET normalized == StripSlashes(Trim(base.chars)) IN
       IF normalized = <<>> THEN JsString(<<"/">>)
       ELSE JsString(<<"/">> \o normalized \o <<"/">>)

normalizeRouterBase(base) ==
  IF Falsy(base) THEN JsString(<<"/">>)
  ELSE IF base.type # "string" THEN TypeError
  ELSE IF Trim(base.chars) = <<>> \/ base.chars = <<"/">> THEN JsString(<<"/">>)
  ELSE LET normalized == StripSlashes(Trim(base.chars)) IN
       IF normalized = <<>> THEN JsString(<<"/">>)
       ELSE JsString(<<"/">> \o normalized \o <<"/">>)

normalizeRequestPrefix_leadingOnly(base) ==
  IF Falsy(base) THEN JsString(<<>>)
  ELSE IF base.type # "string" THEN TypeError
  ELSE IF Trim(base.chars) = <<>> \/ base.chars = <<"/">> THEN JsString(<<>>)
  ELSE LET normalized == StripLeadingOnly(Trim(base.chars)) IN
       IF normalized = <<>> THEN JsString(<<>>)
       ELSE JsString(<<"/">> \o normalized)

normalizeRequestPrefix_noSlash(base) ==
  IF Falsy(base) THEN JsString(<<>>)
  ELSE IF base.type # "string" THEN TypeError
  ELSE IF Trim(base.chars) = <<>> \/ base.chars = <<"/">> THEN JsString(<<>>)
  ELSE LET normalized == StripSlashes(Trim(base.chars)) IN
       JsString(normalized)

normalizeRequestPrefix(base) ==
  IF Falsy(base) THEN JsString(<<>>)
  ELSE IF base.type # "string" THEN TypeError
  ELSE IF Trim(base.chars) = <<>> \/ base.chars = <<"/">> THEN JsString(<<>>)
  ELSE LET normalized == StripSlashes(Trim(base.chars)) IN
       IF normalized = <<>> THEN JsString(<<>>)
       ELSE JsString(<<"/">> \o normalized)

(* the Vite configuration *)

normalizeBase_noTrim(base) ==
  IF Falsy(base) \/ (base.type = "string" /\ base.chars = <<"/">>) THEN JsString(<<"/">>)
  ELSE IF base.type # "string" THEN TypeError
  ELSE LET normalized == StripSlashes(base.chars) IN
       IF normalized = <<>> THEN JsString(<<"/">>)
       ELSE JsString(<<"/">> \o normalized \o <<"/">>)

normalizeBase(base) ==
  IF Falsy(base) \/ (base.type = "string" /\ base.chars = <<"/">>) THEN JsString(<<"/">>)
  ELSE IF base.type # "string" THEN TypeError
  ELSE LET normalized == StripSlashes(Trim(base.chars)) IN
       IF normalized = <<>> THEN JsString(<<"/">>)
       ELSE JsString(<<"/">> \o normalized \o <<"/">>)

----------------------------------------------------------------------------
(* State machine: the two modules are evaluated once each; the environment *)
(* variable may change at any time; callers invoke the functions.          *)

Idle == [fn |-> "idle", arg |-> JsUndefined, ret |-> JsUndefined]

Init ==
  /\ env \in EnvValues(MaxEnvLen)
  /\ pc = [vite |-> "init", router |-> "init"]
  /\ basePath = JsUndefined
  /\ ROUTER_BASE = JsUndefined
  /\ API_REQUEST_PREFIX = JsUndefined
  /\ viteBasePath = JsUndefined
  /\ call = Idle

\* the Vite configuration is evaluated: basePath = normalizeBase(process.env.PROXY_PREFIX_PATH || '')
LoadViteConfig ==
  /\ pc.vite = "init"
  /\ viteBasePath' = normalizeBase(OrEmpty(env))
  /\ pc' = [pc EXCEPT !.vite = "done"]
  /\ UNCHANGED <<env, basePath, ROUTER_BASE, API_REQUEST_PREFIX, call>>

\* router.js is evaluated: the three exported constants are initialised
LoadRouterModule ==
  /\ pc.router = "init"
  /\ basePath' = OrEmpty(env)
  /\ ROUTER_BASE' = normalizeRouterBase(basePath')
  /\ API_REQUEST_PREFIX' = normalizeRequestPrefix(basePath')
  /\ pc' = [pc EXCEPT !.router = "done"]
  /\ UNCHANGED <<env, viteBasePath, call>>

SetEnv_reactive(v) ==
  /\ v # env
  /\ env' = v
  /\ IF pc.router = "done"
       THEN /\ basePath' = OrEmpty(v)
            /\ ROUTER_BASE' = normalizeRouterBase(basePath')
            /\ API_REQUEST_PREFIX' = normalizeRequestPrefix(basePath')
       ELSE UNCHANGED <<basePath, ROUTER_BASE, API_REQUEST_PREFIX>>
  /\ UNCHANGED <<pc, viteBasePath, call>>

\* the environment variable is set to another value, or unset
SetEnv(v) ==
  /\ v # env
  /\ env' = v
  /\ UNCHANGED <<pc, basePath, ROUTER_BASE, API_REQUEST_PREFIX, viteBasePath, call>>

Next ==
  \/ LoadViteConfig
  \/ LoadRouterModule
  \/ \E v \in EnvValues(MaxEnvLen) : SetEnv(v)

Spec == Init /\ [][Next]_vars

(* Calls of the functions, with both modules loaded under the default       *)
(* (unset) environment.                                                     *)

InitCalls ==
  /\ env = JsUndefined
  /\ pc = [vite |-> "done", router |-> "done"]
  /\ basePath = OrEmpty(env)
  /\ ROUTER_BASE = normalizeRouterBase(basePath)
  /\ API_REQUEST_PREFIX = normalizeRequestPrefix(basePath)
  /\ viteBasePath = normalizeBase(OrEmpty(env))
  /\ call = Idle

CallNormalizeRouterBase(v) ==
  /\ call' = [fn |-> "normalizeRouterBase", arg |-> v, ret |-> normalizeRouterBase(v)]
  /\ UNCHANGED <<env, pc, basePath, ROUTER_BASE, API_REQUEST_PREFIX, viteBasePath>>

CallNormalizeRequestPrefix(v) ==
  /\ call' = [fn |-> "normalizeRequestPrefix", arg |-> v, ret |-> normalizeRequestPrefix(v)]
  /\ UNCHANGED <<env, pc, basePath, ROUTER_BASE, API_REQUEST_PREFIX, viteBasePath>>

\* normalizeBase is private to the Vite configuration: its argument is always
\* process.env.PROXY_PREFIX_PATH || '' for a value e of the variable
CallNormalizeBase(e) ==
  /\ call' = [fn |-> "normalizeBase", arg |-> e, ret |-> normalizeBase(OrEmpty(e))]
  /\ UNCHANGED <<env, pc, basePath, ROUTER_BASE, API_REQUEST_PREFIX, viteBasePath>>

NextCalls ==
  \/ \E v \in JsArgs : CallNormalizeRouterBase(v)
  \/ \E v \in JsArgs : CallNormalizeRequestPrefix(v)
  \/ \E e \in EnvValues(MaxLen) : CallNormalizeBase(e)

SpecCalls == InitCalls /\ [][NextCalls]_vars

----------------------------------------------------------------------------
(* Vocabulary of the properties, stated on the input itself rather than by *)
(* running the normaliser.                                                 *)

HasDoubleSlash(s) == \E i \in 1..(Len(s) - 1) : s[i] = "/" /\ s[i + 1] = "/"

\* position p of s holds a non-slash character that survives trimming
Kept(s, p) ==
  /\ s[p] # "/"
  /\ \E f \in 1..p : s[f] \notin Whitespace
  /\ \E g \in p..Len(s) : s[g] \notin Whitespace

KeptIdx(s) == {p \in 1..Len(s) : Kept(s, p)}

MinOf(S) == CHOOSE x \in S : \A y \in S : x <= y

MaxOf(S) == CHOOSE x \in S : \A y \in S : y <= x

\* the core of s: from its first kept character to its last
Core(s) == IF KeptIdx(s) = {} THEN <<>> ELSE SubSeq(s, MinOf(KeptIdx(s)), MaxOf(KeptIdx(s)))

\* a run of two slashes with kept characters on both sides
HasInnerDoubleSlash(s) ==
  \E i \in 1..(Len(s) - 1) :
    /\ s[i] = "/" /\ s[i + 1] = "/"
    /\ \E p \in 1..(i - 1) : Kept(s, p)
    /\ \E q \in (i + 2)..Len(s) : Kept(s, q)

AllWhitespace(s) == \A i \in 1..Len(s) : s[i] \in Whitespace

\* the inputs that denote "no prefix"
NoPrefix(v) ==
  \/ v.type \in {"undefined", "null"}
  \/ v.chars = <<>>
  \/ AllWhitespace(v.chars)
  \/ v.chars = <<"/">>
  \/ Core(v.chars) = <<>>

IsRouterCall == call.fn = "normalizeRouterBase"

IsPrefixCall == call.fn = "normalizeRequestPrefix"

----------------------------------------------------------------------------
(* C1 *)

\* C1 (as stated): every result of normalizeRouterBase starts with "/", ends
\* with "/" and contains no "//".
C1_NoDoubleSlashAnywhere ==
  IsRouterCall =>
    /\ call.ret.type = "string"
    /\ Head(call.ret.chars) = "/"
    /\ call.ret.chars[Len(call.ret.chars)] = "/"
    /\ ~HasDoubleSlash(call.ret.chars)

\* C1 (amended): every result of normalizeRouterBase starts with "/" and ends
\* with "/", never begins or ends with "//", and contains "//" exactly when
\* the input has a run of slashes strictly inside its core.
C1_SlashesOnlyInsideCore ==
  IsRouterCall =>
    LET r == call.ret.chars IN
    /\ call.ret.type = "string"
    /\ Len(r) >= 1
    /\ Head(r) = "/"
    /\ r[Len(r)] = "/"
    /\ Len(r) > 1 => (r[2] # "/" /\ r[Len(r) - 1] # "/")
    /\ HasDoubleSlash(r) <=> (call.arg.type = "string" /\ HasInnerDoubleSlash(call.arg.chars))

C1_Witness ==
  /\ IsRouterCall
  /\ call.arg = JsString(<<"/", "/", "a", "/">>)
  /\ call.ret = JsString(<<"/", "a", "/">>)

\* C2: every result of normalizeRequestPrefix is "" or starts with "/" and
\* does not end with "/".
C2_RequestPrefixShape ==
  IsPrefixCall =>
    LET r == call.ret.chars IN
    /\ call.ret.type = "string"
    /\ r = <<>> \/ (Head(r) = "/" /\ r[Len(r)] # "/")

C2_Witness ==
  /\ IsPrefixCall
  /\ call.arg = JsString(<<"a", "/", "/">>)
  /\ call.ret = JsString(<<"/", "a">>)

\* C3: every input that denotes "no prefix" gives "/" from normalizeRouterBase
\* and "" from normalizeRequestPrefix.
C3_NoPrefixIsRoot ==
  NoPrefix(call.arg) =>
    /\ IsRouterCall => call.ret = JsString(<<"/">>)
    /\ IsPrefixCall => call.ret = JsString(<<>>)

C3_Witness ==
  /\ IsPrefixCall
  /\ call.arg = JsString(<<" ", "/", " ">>)
  /\ call.ret = JsString(<<>>)

\* C4: for an input with a non-empty core, normalizeRouterBase returns
\* "/" + core + "/", the core kept verbatim.
C4_RouterBaseWrapsCore ==
  (IsRouterCall /\ call.arg.type = "string" /\ Core(call.arg.chars) # <<>>) =>
    call.ret = JsString(<<"/">> \o Core(call.arg.chars) \o <<"/">>)

C4_Witness ==
  /\ IsRouterCall
  /\ call.arg = JsString(<<" ", "a", "/", "a">>)
  /\ call.ret = JsString(<<"/", "a", "/", "a", "/">>)

\* C5: normalizing the core sliced out of a router base gives the same
\* router base again.
C5_RestripIdempotent ==
  (IsRouterCall /\ call.ret.type = "string") =>
    normalizeRouterBase(JsString(slice(call.ret.chars, 1, -1))) = call.ret

\* C6: for every value of PROXY_PREFIX_PATH the build configuration's base
\* path equals the router base computed from the same value.
C6_ViteBaseEqualsRouterBase ==
  call.fn = "normalizeBase" => call.ret = normalizeRouterBase(OrEmpty(call.arg))

C6_Witness ==
  /\ call.fn = "normalizeBase"
  /\ call.arg = JsString(<<" ", " ">>)
  /\ call.ret = JsString(<<"/">>)

\* C7: both functions return a string for every string, null and undefined.
C7_Total ==
  (IsRouterCall \/ IsPrefixCall) => call.ret.type = "string"

C7_Witness ==
  /\ IsRouterCall
  /\ call.arg = JsNull
  /\ call.ret.type = "string"

\* C8: the constants are computed at module load from the value of the
\* variable at that moment, and nothing changes them afterwards.
C8_ComputedOnce ==
  [][/\ (pc.router = "init" /\ pc'.router = "done") =>
          /\ basePath' = OrEmpty(env)
          /\ ROUTER_BASE' = normalizeRouterBase(OrEmpty(env))
          /\ API_REQUEST_PREFIX' = normalizeRequestPrefix(OrEmpty(env))
     /\ pc.router = "done" =>
          /\ pc'.router = "done"
          /\ UNCHANGED <<basePath, ROUTER_BASE, API_REQUEST_PREFIX>>]_vars

C8_Witness ==
  /\ pc.router = "done"
  /\ ROUTER_BASE = JsString(<<"/", "a", "/">>)
  /\ env = JsString(<<"/">>)

\* C9: the router base is the request prefix followed by one "/".
C9_RouterBaseIsPrefixPlusSlash ==
  IsRouterCall =>
    /\ normalizeRequestPrefix(call.arg).type = "string"
    /\ call.ret = JsString(normalizeRequestPrefix(call.arg).chars \o <<"/">>)

C9_Witness ==
  /\ IsRouterCall
  /\ call.arg = JsString(<<"a", " ", "/">>)
  /\ call.ret = JsString(<<"/", "a", " ", "/">>)

\* C10: a normalized value is a fixed point of its own normalizer.
C10_FixedPoint ==
  /\ IsRouterCall => normalizeRouterBase(call.ret) = call.ret
  /\ IsPrefixCall => normalizeRequestPrefix(call.ret) = call.ret

====
